---- MODULE Spec2Model ----
(***************************************************************************)
(* State-machine model of the document-understanding service:             *)
(*   - the upload handler (routes/api/upload/+server.ts, POST),            *)
(*   - the job processor (processJob and createZip),                       *)
(*   - the analysis process it spawns (src/analyze-pptx.ts, main) with the *)
(*     LibreOffice converter and the three Gemini analyzers.               *)
(* Text is modelled as sequences of tokens (strings), so that the string   *)
(* operations of the code (includes, sort, indexOf, replace) are computed. *)
(***************************************************************************)
EXTENDS Integers, Sequences, FiniteSets, TLC

\* ------------------------------------------------------------------ bounds
MaxJobs == 2        \* job records the store may hold
MaxRuns == 2        \* processJob invocations
MaxTime == 1        \* the clock takes the values 0..MaxTime (seconds)
MaxImages == 1      \* image entries of an uploaded deck
MaxVideos == 1      \* video entries of an uploaded deck
PipeImages == 2     \* image entries of the deck of the single-run specification
PipeVideos == 2     \* video entries of the deck of the single-run specification
MaxPages == 2       \* pages the whole-document pass returns, and their numbers
MaxAnalyses == 2    \* image analyses handed to the report
MaxEntries == 3     \* entries of a container handed to the media extractor
MaxSlides == 2      \* slides whose relationship parts a container may hold
MaxTokens == 3      \* markup tokens in the part handed to the font rewriter

JobIds == 1..MaxJobs
RunIds == 1..MaxRuns

\* ------------------------------------------------------------------ text
Digit(n) ==
    CASE n = 0 -> "0" [] n = 1 -> "1" [] n = 2 -> "2" [] n = 3 -> "3"
      [] n = 4 -> "4" [] n = 5 -> "5" [] n = 6 -> "6" [] n = 7 -> "7"
      [] n = 8 -> "8" [] OTHER -> "9"

\* UTF-16 order of the characters used in names (Array.prototype.sort default)
CharCode(c) ==
    CASE c = " " -> 32
      [] c \in {"0", "1", "2", "3", "4", "5", "6", "7", "8", "9"} ->
           48 + (CHOOSE n \in 0..9 : Digit(n) = c)
      [] c = "_" -> 95
      [] c = "a" -> 97
      [] c = "b" -> 98
      [] OTHER -> 122

RECURSIVE StrLess(_, _)
StrLess(s, t) ==
    IF t = << >> THEN FALSE
    ELSE IF s = << >> THEN TRUE
    ELSE IF CharCode(Head(s)) # CharCode(Head(t))
         THEN CharCode(Head(s)) < CharCode(Head(t))
    ELSE StrLess(Tail(s), Tail(t))

\* String.prototype.startsWith and String.prototype.endsWith
startsWith(s, prefix) ==
    Len(s) >= Len(prefix) /\ SubSeq(s, 1, Len(prefix)) = prefix

endsWith(s, suffix) ==
    Len(s) >= Len(suffix) /\ SubSeq(s, Len(s) - Len(suffix) + 1, Len(s)) = suffix

\* String.prototype.includes
includes(s, sub) ==
    \E k \in 0..(Len(s) - Len(sub)) : SubSeq(s, k + 1, k + Len(sub)) = sub

\* String.prototype.replace(/\s+/g, "_"): every run of whitespace becomes one "_"
RECURSIVE replaceWhitespace(_)
replaceWhitespace(s) ==
    IF s = << >> THEN << >>
    ELSE IF Head(s) = " "
         THEN IF Len(s) > 1 /\ s[2] = " "
              THEN replaceWhitespace(Tail(s))
              ELSE <<"_">> \o replaceWhitespace(Tail(s))
    ELSE <<Head(s)>> \o replaceWhitespace(Tail(s))

\* String.prototype.indexOf("_"), 0 when absent (1-based otherwise)
indexOfUnderscore(s) ==
    IF \E k \in 1..Len(s) : s[k] = "_"
    THEN CHOOSE k \in 1..Len(s) : s[k] = "_" /\ \A m \in 1..(k - 1) : s[m] # "_"
    ELSE 0

\* names (without the .pptx suffix) a client may upload
FileNames == { <<"a">>, <<"b", " ", "a">> }

\* ------------------------------------------------------------------ container
\* the sequences over S of length at most n
SeqUpTo(S, n) == UNION {[1..m -> S] : m \in 0..n}

\* A deck is a list of ZIP entries.  The path of an entry is its directory (a
\* list of segments) and its name; ext is the extension as written.  A
\* relationship part also carries the slide number in its name and the media
\* names of its Target="../media/..." attributes.
ImageName(k) == <<"image", Digit(k), ".png">>
VideoName(k) == <<"media", Digit(k), ".mp4">>

MediaDir == <<"ppt/", "media/">>
RelsDir == <<"ppt/", "slides/", "_rels/">>

Deck(nImg, nVid) ==
    [k \in 1..nImg |-> [dir |-> MediaDir, name |-> ImageName(k), ext |-> ".png",
                        slide |-> 0, targets |-> {}]]
    \o [k \in 1..nVid |-> [dir |-> MediaDir, name |-> VideoName(k), ext |-> ".mp4",
                           slide |-> 0, targets |-> {}]]
    \o << [dir |-> MediaDir, name |-> <<"image", "9", ".emf">>, ext |-> ".emf",
           slide |-> 0, targets |-> {}],
          [dir |-> RelsDir, name |-> <<"slide", "1", ".xml.rels">>,
           ext |-> ".rels", slide |-> 1,
           targets |-> {ImageName(k) : k \in 1..nImg}],
          [dir |-> RelsDir, name |-> <<"slide", "2", ".xml.rels">>,
           ext |-> ".rels", slide |-> 2,
           targets |-> {VideoName(k) : k \in 1..nVid}] >>

imageExtensions == {".png", ".jpg", ".jpeg", ".gif", ".bmp", ".svg"}
videoExtensions == {".mp4", ".avi", ".mov", ".wmv", ".mkv"}

\* String.prototype.toLowerCase on an extension
toLowerCase(ext) ==
    CASE ext = ".PNG" -> ".png" [] ext = ".MP4" -> ".mp4" [] OTHER -> ext

\* entry.entryName.includes("ppt/media/"): anywhere in the path
inMediaPath(e) == includes(e.dir, MediaDir)

\* entryName.match(/ppt\/slides\/_rels\/slide(\d+)\.xml\.rels$/)
isSlideRels(e) ==
    /\ Len(e.dir) >= Len(RelsDir)
    /\ SubSeq(e.dir, Len(e.dir) - Len(RelsDir) + 1, Len(e.dir)) = RelsDir
    /\ Len(e.name) = 3 /\ e.name[1] = "slide" /\ e.name[3] = ".xml.rels"

\* slide number 0 stands for "Unknown": mediaToSlideMap[name] || "Unknown"
Unknown == 0

\* buildMediaToSlideMap: the entries are walked in ZIP order and every target
\* of a slide relationship part overwrites the map entry of its media name.
RECURSIVE buildMediaToSlideMap(_, _)
buildMediaToSlideMap(entries, map) ==
    IF entries = << >> THEN map
    ELSE LET e == Head(entries)
             m == IF isSlideRels(e)
                  THEN [n \in DOMAIN map \cup e.targets |->
                          IF n \in e.targets THEN e.slide ELSE map[n]]
                  ELSE map
         IN  buildMediaToSlideMap(Tail(entries), m)

slideNumberOf(map, name) ==
    IF name \in DOMAIN map /\ map[name] # 0 THEN map[name] ELSE Unknown

\* extractMediaFromPPTX: one MediaFile per entry with "ppt/media/" in its path
\* and a listed extension, in ZIP order
RECURSIVE extractSelect(_, _, _)
extractSelect(entries, exts, map) ==
    IF entries = << >> THEN << >>
    ELSE LET e == Head(entries)
         IN  (IF inMediaPath(e) /\ toLowerCase(e.ext) \in exts
              THEN << [name |-> e.name, slideNumber |-> slideNumberOf(map, e.name)] >>
              ELSE << >>)
             \o extractSelect(Tail(entries), exts, map)

extractMediaFromPPTX(entries) ==
    LET map == buildMediaToSlideMap(entries, << >>)
    IN  [images |-> extractSelect(entries, imageExtensions, map),
         videos |-> extractSelect(entries, videoExtensions, map)]

\* ------------------------------------------------------------------ surroundings
\* the answers of the understanding service: the JSON asked for, JSON without
\* the fields, text that is not JSON, an error
ServiceResponses == {"json", "json_empty", "unparsable", "error"}

\* the states the service reports for an uploaded file ("rejected": the
\* request failed)
FileStates == {"rejected", "PROCESSING", "ACTIVE", "FAILED"}

\* ------------------------------------------------------------------ state
VARIABLES
    jobs,       \* store, collection "jobs": job id -> record (status "none": no record)
    files,      \* store, collection "files": job id -> record (exists FALSE: no record)
    env,        \* what the surroundings do: the answers and file states of the
                \* understanding service, and whether copies and uploads may fail
    now,        \* the wall clock, in seconds
    output,     \* directory output/: directory name -> its files (writer run, 0: absent)
    temp,       \* directory temp/: directory name -> file name -> writer run
    logs,       \* directory logs/: log file name -> runs that appended to it
    pc,         \* run -> position of the processJob invocation
    call,       \* run -> locals of processJob: jobId, thrown (the caught value), outputPath
    proc,       \* run -> state of the analysis process (analyze-pptx.ts)
    history,    \* run -> what happened in the run (kept for the properties)
    lab         \* the input and the result of a function or handler applied on its
                \* own (specifications ReportSpec, ...); << >> elsewhere

\* whether a copy, a size check or an upload succeeds
Outcomes == IF env.faults THEN BOOLEAN ELSE {TRUE}

vars == <<jobs, files, env, now, output, temp, logs, pc, call, proc, history, lab>>

NoJob == [status |-> "none", filename |-> << >>, error |-> << >>,
          zipPath |-> << >>, completedAt |-> FALSE]
NoFile == [exists |-> FALSE, originalName |-> << >>, savedName |-> << >>,
           entries |-> << >>]
NoThrown == [isError |-> TRUE, message |-> << >>]
NoCall == [jobId |-> 0, thrown |-> NoThrown, outputPath |-> << >>]
NoPdf == [error |-> << >>, pages |-> "none"]
NoProc == [timestamp |-> -1, media |-> [images |-> << >>, videos |-> << >>], i |-> 0,
           imageAnalyses |-> << >>, videoAnalyses |-> << >>, pdfAnalysis |-> NoPdf,
           visited |-> {}, inflight |-> {}, callLog |-> << >>]
NoHistory == [timestamp |-> -1, renderFailed |-> FALSE, pdfFailed |-> FALSE]

\* no job, no run, nothing on disk
InitSystem ==
    /\ jobs = [j \in JobIds |-> NoJob]
    /\ files = [j \in JobIds |-> NoFile]
    /\ env = [responses |-> {"json"}, states |-> {"PROCESSING", "ACTIVE"},
              faults |-> FALSE]
    /\ now = 0
    /\ output = << >>
    /\ temp = << >>
    /\ logs = << >>
    /\ pc = [r \in RunIds |-> "idle"]
    /\ call = [r \in RunIds |-> NoCall]
    /\ proc = [r \in RunIds |-> NoProc]
    /\ history = [r \in RunIds |-> NoHistory]

Init == InitSystem /\ lab = << >>

\* ------------------------------------------------------------------ upload
FreeRun(r) == pc[r] = "idle" /\ \A q \in RunIds : q < r => pc[q] # "idle"
FreeJob(j) == jobs[j].status = "none" /\ \A k \in JobIds : k < j => jobs[k].status # "none"

\* processJob(jobId) runs up to its first await
processJobStart(r, j) ==
    /\ pc' = [pc EXCEPT ![r] = "pj_claim"]
    /\ call' = [call EXCEPT ![r].jobId = j]

\* POST /api/upload: the file is saved, the job record and the file record are
\* created, processJob is started in the background.  A rejected create ends
\* the handler with status 500.
POST ==
    \E j \in JobIds, name \in FileNames, jobOk \in BOOLEAN, fileOk \in BOOLEAN :
        /\ FreeJob(j)
        /\ IF ~jobOk
           THEN UNCHANGED <<jobs, files, pc, call>>
           ELSE /\ jobs' = [jobs EXCEPT ![j] = [NoJob EXCEPT !.status = "pending",
                                                             !.filename = name \o <<".pptx">>]]
                /\ IF ~fileOk
                   THEN UNCHANGED <<files, pc, call>>
                   ELSE /\ files' = [files EXCEPT ![j] =
                              [exists |-> TRUE,
                               originalName |-> name \o <<".pptx">>,
                               savedName |-> <<Digit(j), "_">> \o name \o <<".pptx">>,
                               entries |-> Deck(MaxImages, MaxVideos)]]
                        /\ \E r \in RunIds : FreeRun(r) /\ processJobStart(r, j)
        /\ UNCHANGED <<env, lab, now, output, temp, logs, proc, history>>

\* processJob is an exported entry point: it may be called for any job record
processJob ==
    \E r \in RunIds, j \in JobIds :
        /\ FreeRun(r)
        /\ jobs[j].status # "none"
        /\ processJobStart(r, j)
        /\ UNCHANGED <<jobs, files, env, lab, now, output, temp, logs, proc, history>>

\* ------------------------------------------------------------------ processJob
\* pb.collection("jobs").update(id, fields) merges the given fields into the record
updateProcessing(job) == [job EXCEPT !.status = "processing"]

\* an update to completed that leaves the path of the zip out
updateCompletedStatusOnly(job, zip) ==
    [job EXCEPT !.status = "completed", !.completedAt = TRUE]

updateCompleted(job, zip) ==
    [job EXCEPT !.status = "completed", !.completedAt = TRUE, !.zipPath = zip]

\* error instanceof Error ? error.message : "Unknown error"
errorDetail(e) == IF e.isError THEN e.message ELSE <<"Unknown error">>

updateFailed(job, e) ==
    [job EXCEPT !.status = "failed", !.completedAt = TRUE, !.error = errorDetail(e)]

Error(msg) == [isError |-> TRUE, message |-> msg]

\* the ClientResponseError of a rejected store call
StoreError == Error(<<"Something went wrong while processing your request.">>)

\* what a failed zip stream hands to reject
Rejections == { Error(<<"archive failed">>),
                [isError |-> FALSE, message |-> <<"not an Error">>] }

throw(r, e) ==
    /\ call' = [call EXCEPT ![r].thrown = e]
    /\ pc' = [pc EXCEPT ![r] = "pj_catch"]

goto(r, pos) == pc' = [pc EXCEPT ![r] = pos]

\* lines 176-178: the status is set to processing, whatever it was
processJobClaim(r) ==
    /\ pc[r] = "pj_claim"
    /\ \E ok \in BOOLEAN :
         IF ok
         THEN /\ jobs' = [jobs EXCEPT ![call[r].jobId] = updateProcessing(@)]
              /\ goto(r, "pj_getfile")
              /\ UNCHANGED call
         ELSE /\ throw(r, StoreError)
              /\ UNCHANGED jobs
    /\ UNCHANGED <<files, env, lab, now, output, temp, logs, proc, history>>

\* lines 181-189: the file record of the job
processJobGetFile(r) ==
    /\ pc[r] = "pj_getfile"
    /\ \E ok \in BOOLEAN :
         IF ~ok THEN throw(r, StoreError)
         ELSE IF ~files[call[r].jobId].exists
              THEN throw(r, Error(<<"No file found for job">>))
         ELSE /\ goto(r, "main_begin")
              /\ UNCHANGED call
    /\ UNCHANGED <<jobs, files, env, lab, now, output, temp, logs, proc, history>>

\* path.basename(name, ".pptx")
basenamePptx(n) ==
    IF n # << >> /\ n[Len(n)] = ".pptx" THEN SubSeq(n, 1, Len(n) - 1) ELSE n

\* lines 217-219 of the processor
transformedFilename(originalName) == replaceWhitespace(basenamePptx(originalName))

\* outputDirs.filter(includes).sort().pop(): the greatest matching name, << >> if none
jobOutputDir(dirs, name) ==
    LET hits == {d \in dirs : includes(d, name)}
    IN  IF hits = {} THEN << >>
        ELSE CHOOSE d \in hits : \A o \in hits : o = d \/ StrLess(o, d)

\* lines 214-230: the output directory is looked up by name
processJobFindOutput(r) ==
    /\ pc[r] = "pj_find"
    /\ LET d == jobOutputDir(DOMAIN output,
                             transformedFilename(files[call[r].jobId].originalName))
       IN  IF d = << >>
           THEN throw(r, Error(<<"Output directory not found">>))
           ELSE /\ call' = [call EXCEPT ![r].outputPath = d]
                /\ goto(r, "pj_zip")
    /\ UNCHANGED <<jobs, files, env, lab, now, output, temp, logs, proc, history>>

\* lines 232-239 and createZip: the directory is archived into a zip inside it
processJobCreateZip(r) ==
    /\ pc[r] = "pj_zip"
    /\ \E ok \in BOOLEAN, e \in Rejections :
         IF ok
         THEN /\ output' = [output EXCEPT ![call[r].outputPath].zip = r,
                                          ![call[r].outputPath].zipReport =
                                              output[call[r].outputPath].report]
              /\ goto(r, "pj_complete")
              /\ UNCHANGED call
         ELSE /\ throw(r, e)
              /\ UNCHANGED output
    /\ UNCHANGED <<jobs, files, env, lab, now, temp, logs, proc, history>>

\* lines 241-249; processJob returns
processJobComplete(r) ==
    /\ pc[r] = "pj_complete"
    /\ \E ok \in BOOLEAN :
         IF ok
         THEN /\ jobs' = [jobs EXCEPT ![call[r].jobId] =
                              updateCompleted(@, call[r].outputPath)]
              /\ goto(r, "done")
              /\ call' = [call EXCEPT ![r].outputPath = << >>]
         ELSE /\ throw(r, StoreError)
              /\ UNCHANGED jobs
    /\ UNCHANGED <<files, env, lab, now, output, temp, logs, proc, history>>

\* lines 250-262: the failure is recorded; a rejected update is only logged;
\* processJob returns
processJobCatch(r) ==
    /\ pc[r] = "pj_catch"
    /\ \E ok \in BOOLEAN :
         IF ok
         THEN jobs' = [jobs EXCEPT ![call[r].jobId] = updateFailed(@, call[r].thrown)]
         ELSE UNCHANGED jobs
    /\ goto(r, "done")
    /\ call' = [call EXCEPT ![r].thrown = NoThrown, ![r].outputPath = << >>]
    /\ UNCHANGED <<files, env, lab, now, output, temp, logs, proc, history>>

\* ------------------------------------------------------------------ analyze-pptx.ts
\* the file name up to ".pptx", without the prefix that ends at the first "_"
mainFilename(savedName) ==
    LET full == basenamePptx(savedName)
        k == indexOfUnderscore(full)
    IN  IF k = 0 THEN full ELSE SubSeq(full, k + 1, Len(full))

\* `${timestamp}_${filename.replace(/\s+/g, "_")}`
outputDirName(ts, savedName) ==
    <<Digit(ts), "_">> \o replaceWhitespace(mainFilename(savedName))

\* path.join(cwd, "temp", timestamp): the job id is not part of the path
tempDir(ts, jobId) == <<"temp", Digit(ts)>>

\* path.join(logDir, `${timestamp}.log`): the job id is not part of the path
logFile(ts, jobId) == <<"logs", Digit(ts), ".log">>

\* `${filename}_arial.pptx`
modifiedPptxName(savedName) == mainFilename(savedName) \o <<"_arial.pptx">>

savedNameOf(r) == files[call[r].jobId].savedName
outDirOf(r) == outputDirName(proc[r].timestamp, savedNameOf(r))
tempDirOf(r) == tempDir(proc[r].timestamp, call[r].jobId)
logFileOf(r) == logFile(proc[r].timestamp, call[r].jobId)

EmptyOut == [pdf |-> 0, report |-> 0, zip |-> 0, zipReport |-> 0, assets |-> {}]

\* fs.mkdir(dir, { recursive: true }): an existing directory is left as it is
mkdir(fs, d, empty) == IF d \in DOMAIN fs THEN fs ELSE (d :> empty) @@ fs

\* fs.rm(dir, { recursive: true, force: true })
rm(fs, d) == [x \in DOMAIN fs \ {d} |-> fs[x]]

existsTemp(d, name) == d \in DOMAIN temp /\ name \in temp[d]

\* fs.appendFile(logFile, line): the file is created when absent
appendLog(r) ==
    logs' = IF logFileOf(r) \in DOMAIN logs
            THEN [logs EXCEPT ![logFileOf(r)] = @ \cup {r}]
            ELSE (logFileOf(r) :> {r}) @@ logs

RECURSIVE Names(_)
Names(seq) == IF seq = << >> THEN {} ELSE {Head(seq).name} \cup Names(Tail(seq))

\* main().catch: "Fatal error" is printed and the process exits with code 1, so
\* execAsync rejects with "Command failed: <command>\n<stderr>"; the temp
\* directory is not removed on this path
mainFatal(r, cause) ==
    /\ proc' = [proc EXCEPT ![r] = NoProc]
    /\ throw(r, Error(<<"Command failed">> \o cause))

\* lines 27-44 and 160-168: the timestamp is taken, the log is opened, the
\* output directory and the temp directory are created
mainBegin(r) ==
    /\ pc[r] = "main_begin"
    /\ \E t \in {now, now + 1} :
         /\ t <= MaxTime
         /\ now' = t
         /\ proc' = [proc EXCEPT ![r].timestamp = t]
         /\ history' = [history EXCEPT ![r].timestamp = t]
         /\ logs' = IF logFile(t, call[r].jobId) \in DOMAIN logs
                    THEN [logs EXCEPT ![logFile(t, call[r].jobId)] = @ \cup {r}]
                    ELSE (logFile(t, call[r].jobId) :> {r}) @@ logs
         /\ output' = mkdir(output, outputDirName(t, savedNameOf(r)), EmptyOut)
         /\ temp' = mkdir(temp, tempDir(t, call[r].jobId), {})
    /\ goto(r, "main_extract")
    /\ UNCHANGED <<jobs, files, env, lab, call>>

\* lines 170-175: the media entries are written into the temp directory.  An
\* unreadable archive rejects; a failed write ends in an unhandled rejection
mainExtract(r) ==
    /\ pc[r] = "main_extract"
    /\ \E readable \in BOOLEAN :
         IF ~readable \/ tempDirOf(r) \notin DOMAIN temp
         THEN /\ mainFatal(r, <<"Failed to extract media from PPTX">>)
              /\ UNCHANGED temp
         ELSE LET m == extractMediaFromPPTX(files[call[r].jobId].entries)
              IN  /\ temp' = [temp EXCEPT ![tempDirOf(r)] =
                                 @ \cup Names(m.images) \cup Names(m.videos)]
                  /\ proc' = [proc EXCEPT ![r].media = m]
                  /\ goto(r, "main_fonts")
                  /\ UNCHANGED call
    /\ UNCHANGED <<jobs, files, env, lab, now, output, logs, history>>

\* lines 177-190: the deck with Arial fonts, or a copy of the original, is
\* written into the temp directory (writeZip creates the directory when absent)
mainFonts(r) ==
    /\ pc[r] = "main_fonts"
    /\ temp' = [mkdir(temp, tempDirOf(r), {}) EXCEPT ![tempDirOf(r)] =
                   @ \cup {modifiedPptxName(savedNameOf(r))}]
    /\ appendLog(r)
    /\ goto(r, "main_render")
    /\ UNCHANGED <<jobs, files, env, lab, now, output, call, proc, history>>

\* the outcomes of one soffice call: without its input file it cannot succeed
ConvertResults(r) ==
    IF existsTemp(tempDirOf(r), modifiedPptxName(savedNameOf(r)))
    THEN {"ok", "fail"} ELSE {"fail"}

\* the PDF is in the output directory; the image loop starts
pdfCreated(r) ==
    /\ output' = [mkdir(output, outDirOf(r), EmptyOut) EXCEPT ![outDirOf(r)].pdf = r]
    /\ proc' = [proc EXCEPT ![r].i = 0]
    /\ goto(r, "main_images")
    /\ UNCHANGED <<call, history>>

renderFatal(r, cause) ==
    /\ mainFatal(r, cause)
    /\ history' = [history EXCEPT ![r].renderFailed = TRUE]
    /\ UNCHANGED output

\* lines 192-206 and convertToPdf, first attempt (JSON filter parameters)
mainRender(r) ==
    /\ pc[r] = "main_render"
    /\ \E available \in BOOLEAN, res \in ConvertResults(r) :
         IF ~available
         THEN renderFatal(r, <<"LibreOffice is not installed. Cannot convert to PDF.">>)
         ELSE IF res = "ok" THEN pdfCreated(r)
         ELSE /\ goto(r, "main_render_legacy")
              /\ UNCHANGED <<output, call, proc, history>>
    /\ UNCHANGED <<jobs, files, env, lab, now, temp, logs>>

\* convertToPdf, second attempt (legacy filter format)
mainRenderLegacy(r) ==
    /\ pc[r] = "main_render_legacy"
    /\ \E res \in ConvertResults(r) :
         IF res = "ok" THEN pdfCreated(r)
         ELSE renderFatal(r, <<"PDF conversion failed">>)
    /\ UNCHANGED <<jobs, files, env, lab, now, temp, logs>>

\* ------------------------------------------------------------------ the analyzers
NoError == << >>

\* GeminiImageAnalyzer.analyzeImage: every error is caught and returned in the
\* result; a response that is not JSON is kept as raw text
analyzeImage(fileReadable, resp) ==
    IF ~fileReadable
    THEN [extractedText |-> "", description |-> "", error |-> <<"ENOENT">>]
    ELSE CASE resp = "json" ->
                [extractedText |-> "text", description |-> "description", error |-> NoError]
           [] resp = "json_empty" ->
                [extractedText |-> "", description |-> "", error |-> NoError]
           [] resp = "unparsable" ->
                [extractedText |-> "raw", description |-> "Raw text extraction from Gemini",
                 error |-> NoError]
           [] OTHER ->
                [extractedText |-> "", description |-> "", error |-> <<"service error">>]

\* lines 225-241: the entry pushed to imageAnalyses
imageEntry(image, result) ==
    [filename |-> image.name, pageNumber |-> image.slideNumber,
     text |-> result.extractedText, description |-> result.description,
     error |-> result.error]

currentImage(r) == proc[r].media.images[proc[r].i + 1]
currentVideo(r) == proc[r].media.videos[proc[r].i + 1]

\* an image loop without the catch clause: the error leaves main
imageCatchRethrows(r) ==
    /\ appendLog(r)
    /\ mainFatal(r, <<"Failed to analyze image">>)
    /\ UNCHANGED output

\* lines 248-254: the catch clause of the image loop logs and goes on
imageCatch(r) ==
    /\ appendLog(r)
    /\ proc' = [proc EXCEPT ![r].i = @ + 1, ![r].inflight = {}]
    /\ goto(r, "main_images")
    /\ UNCHANGED <<output, call>>

\* an image loop that starts the call and goes on without awaiting it
awaitImageNotAwaited(r) ==
    /\ proc' = [proc EXCEPT ![r].inflight = @ \cup {currentImage(r).name},
                            ![r].callLog = Append(@, "image"),
                            ![r].visited = @ \cup {currentImage(r).name},
                            ![r].i = @ + 1]
    /\ goto(r, "main_images")

\* line 222: the call is awaited, the loop goes on when it has returned
awaitImage(r) ==
    /\ proc' = [proc EXCEPT ![r].inflight = @ \cup {currentImage(r).name},
                            ![r].callLog = Append(@, "image"),
                            ![r].visited = @ \cup {currentImage(r).name}]
    /\ goto(r, "img_wait")

\* lines 213-222: the head of the image loop and the call of the analyzer
imagesLoop(r) ==
    /\ pc[r] = "main_images"
    /\ IF proc[r].i < Len(proc[r].media.images)
       THEN awaitImage(r)
       ELSE /\ proc' = [proc EXCEPT ![r].i = 0]
            /\ goto(r, "main_videos")
    /\ UNCHANGED <<jobs, files, env, lab, now, output, temp, logs, call, history>>

\* lines 222-247: the analyzer returns, the image is copied to the output
\* directory (fs.copyFile may reject) and the entry is pushed
analyzeImageReturn(r) ==
    /\ pc[r] = "img_wait"
    /\ \E resp \in env.responses, copied \in Outcomes :
         LET image == currentImage(r)
             there == existsTemp(tempDirOf(r), image.name)
             result == analyzeImage(there, resp)
         IN  IF ~copied \/ ~there \/ outDirOf(r) \notin DOMAIN output
             THEN imageCatch(r)
             ELSE /\ output' = [output EXCEPT ![outDirOf(r)].assets = @ \cup {image.name}]
                  /\ proc' = [proc EXCEPT ![r].imageAnalyses =
                                               Append(@, imageEntry(image, result)),
                                          ![r].i = @ + 1,
                                          ![r].inflight = @ \ {image.name}]
                  /\ appendLog(r)
                  /\ goto(r, "main_images")
                  /\ UNCHANGED call
    /\ UNCHANGED <<jobs, files, env, lab, now, temp, history>>

\* GeminiVideoAnalyzer.analyzeVideo, the result: errors are caught and returned
analyzeVideo(resp) ==
    CASE resp = "json" ->
           [transcription |-> "text", description |-> "description", error |-> NoError]
      [] resp = "json_empty" ->
           [transcription |-> "", description |-> "", error |-> NoError]
      [] resp = "unparsable" ->
           [transcription |-> "raw", description |-> "Raw transcription from Gemini",
            error |-> NoError]
      [] OTHER ->
           [transcription |-> "", description |-> "", error |-> <<"service error">>]

\* lines 276-296: the entry pushed to videoAnalyses
videoEntry(video, result) ==
    [filename |-> video.name, pageNumber |-> video.slideNumber,
     transcription |-> result.transcription, description |-> result.description,
     error |-> result.error]

\* lines 303-309: the catch clause of the video loop logs and goes on
videoCatch(r) ==
    /\ appendLog(r)
    /\ proc' = [proc EXCEPT ![r].i = @ + 1, ![r].inflight = {},
                            ![r].visited = @ \cup {currentVideo(r).name}]
    /\ goto(r, "main_videos")
    /\ UNCHANGED output

\* line 274: the call is awaited; the upload is its first step
awaitVideo(r) ==
    /\ proc' = [proc EXCEPT ![r].inflight = @ \cup {currentVideo(r).name},
                            ![r].callLog = Append(@, "video"),
                            ![r].visited = @ \cup {currentVideo(r).name}]
    /\ goto(r, "vid_poll")

\* lines 276-302: the analyzer has returned, the entry is pushed
videoDone(r, result) ==
    /\ proc' = [proc EXCEPT ![r].videoAnalyses =
                                 Append(@, videoEntry(currentVideo(r), result)),
                            ![r].i = @ + 1,
                            ![r].inflight = @ \ {currentVideo(r).name}]
    /\ goto(r, "main_videos")

\* lines 262-274: the head of the video loop; the video is copied to the
\* output directory (fs.copyFile may reject), then the analyzer is called
videosLoop(r) ==
    /\ pc[r] = "main_videos"
    /\ IF proc[r].i < Len(proc[r].media.videos)
       THEN IF \/ ~existsTemp(tempDirOf(r), currentVideo(r).name)
               \/ outDirOf(r) \notin DOMAIN output
            THEN videoCatch(r)
            ELSE \E copied \in Outcomes :
                   IF ~copied
                   THEN videoCatch(r)
                   ELSE /\ output' = [output EXCEPT ![outDirOf(r)].assets =
                                          @ \cup {currentVideo(r).name}]
                        /\ awaitVideo(r)
                        /\ UNCHANGED logs
       ELSE /\ goto(r, "main_pdf")
            /\ UNCHANGED <<output, logs, proc>>
    /\ UNCHANGED <<jobs, files, env, lab, now, temp, call, history>>

\* analyzeVideo lines 111-132: upload, then the state is polled every two
\* seconds for as long as it is PROCESSING
analyzeVideoPoll(r) ==
    /\ pc[r] = "vid_poll"
    /\ \E state \in env.states :
         CASE state = "PROCESSING" -> UNCHANGED <<pc, proc>>
           [] state = "ACTIVE" -> goto(r, "vid_gen") /\ UNCHANGED proc
           [] OTHER -> videoDone(r, analyzeVideo("error"))
    /\ UNCHANGED <<jobs, files, env, lab, now, output, temp, logs, call, history>>

\* analyzeVideo lines 134-221: the model is asked, the answer is parsed
analyzeVideoGenerate(r) ==
    /\ pc[r] = "vid_gen"
    /\ \E resp \in env.responses : videoDone(r, analyzeVideo(resp))
    /\ UNCHANGED <<jobs, files, env, lab, now, output, temp, logs, call, history>>

\* GeminiPDFAnalyzer.analyzePDF, the result: every error is caught and returned
\* as { error }; an answer without a JSON array becomes one fallback page
analyzePDF(resp) ==
    CASE resp = "json" -> [error |-> NoError, pages |-> "pages"]
      [] resp = "json_empty" -> [error |-> NoError, pages |-> "empty"]
      [] resp = "unparsable" -> [error |-> NoError, pages |-> "fallback"]
      [] OTHER -> [error |-> <<"service error">>, pages |-> "none"]

PdfError(msg) == [error |-> msg, pages |-> "none"]

\* line 336: analyzePDF has returned
pdfDone(r, result) ==
    /\ proc' = [proc EXCEPT ![r].pdfAnalysis = result, ![r].inflight = @ \ {<<"pdf">>}]
    /\ history' = [history EXCEPT ![r].pdfFailed = (result.error # NoError)]
    /\ goto(r, "main_report")

\* line 336: the call is awaited
awaitPDF(r) ==
    /\ proc' = [proc EXCEPT ![r].inflight = @ \cup {<<"pdf">>},
                            ![r].callLog = Append(@, "pdf")]
    /\ UNCHANGED history
    /\ goto(r, "pdf_upload")

\* lines 316-334: the media context handed to analyzePDF has one entry per
\* entry of imageAnalyses and of videoAnalyses, in their order
mediaContext(imageAnalyses, videoAnalyses) ==
    [images |-> [k \in DOMAIN imageAnalyses |->
                    [filename |-> imageAnalyses[k].filename,
                     pageNumber |-> imageAnalyses[k].pageNumber,
                     extractedText |-> imageAnalyses[k].text,
                     description |-> imageAnalyses[k].description]],
     videos |-> [k \in DOMAIN videoAnalyses |->
                    [filename |-> videoAnalyses[k].filename,
                     pageNumber |-> videoAnalyses[k].pageNumber,
                     transcription |-> videoAnalyses[k].transcription,
                     description |-> videoAnalyses[k].description]]]

\* lines 312-336: analyzePDF is called with the results of the asset loops
analyzePDFCall(r) ==
    /\ pc[r] = "main_pdf"
    /\ awaitPDF(r)
    /\ UNCHANGED <<jobs, files, env, lab, now, output, temp, logs, call>>

\* analyzePDF lines 111-139: a file over 50 MB and a failed upload are errors
analyzePDFUpload(r) ==
    /\ pc[r] = "pdf_upload"
    /\ \E fits \in Outcomes, uploaded \in Outcomes :
         IF ~fits THEN pdfDone(r, PdfError(<<"PDF file is too large">>))
         ELSE IF ~uploaded THEN pdfDone(r, PdfError(<<"upload failed">>))
         ELSE goto(r, "pdf_poll") /\ UNCHANGED <<proc, history>>
    /\ UNCHANGED <<jobs, files, env, lab, now, output, temp, logs, call>>

\* analyzePDF lines 141-151: the state is polled every five seconds for as long
\* as it is PROCESSING; a state other than ACTIVE is an error
analyzePDFPoll(r) ==
    /\ pc[r] = "pdf_poll"
    /\ \E state \in env.states :
         CASE state = "PROCESSING" -> UNCHANGED <<pc, proc, history>>
           [] state = "ACTIVE" -> goto(r, "pdf_gen") /\ UNCHANGED <<proc, history>>
           [] OTHER -> pdfDone(r, PdfError(<<"PDF processing failed with state">>))
    /\ UNCHANGED <<jobs, files, env, lab, now, output, temp, logs, call>>

\* analyzePDF lines 155-306: the model is asked, the answer is parsed
analyzePDFGenerate(r) ==
    /\ pc[r] = "pdf_gen"
    /\ \E resp \in env.responses : pdfDone(r, analyzePDF(resp))
    /\ UNCHANGED <<jobs, files, env, lab, now, output, temp, logs, call>>

\* lines 344-355 and createResultMarkdown: result.md is written, whatever the
\* whole-document pass returned
createResultMarkdown(r) ==
    /\ pc[r] = "main_report"
    /\ output' = [mkdir(output, outDirOf(r), EmptyOut) EXCEPT ![outDirOf(r)].report = r]
    /\ appendLog(r)
    /\ goto(r, "main_cleanup")
    /\ UNCHANGED <<jobs, files, env, lab, now, temp, call, proc, history>>

\* lines 357-366: the temp directory is removed and the process exits with
\* code 0; processJob goes on after execAsync
mainCleanup(r) ==
    /\ pc[r] = "main_cleanup"
    /\ temp' = rm(temp, tempDirOf(r))
    /\ appendLog(r)
    /\ proc' = [proc EXCEPT ![r] = NoProc]
    /\ goto(r, "pj_find")
    /\ UNCHANGED <<jobs, files, env, lab, now, output, call, history>>

\* ------------------------------------------------------------------ specification
step(r) ==
    \/ processJobClaim(r)
    \/ processJobGetFile(r)
    \/ mainBegin(r)
    \/ mainExtract(r)
    \/ mainFonts(r)
    \/ mainRender(r)
    \/ mainRenderLegacy(r)
    \/ imagesLoop(r)
    \/ analyzeImageReturn(r)
    \/ videosLoop(r)
    \/ analyzeVideoPoll(r)
    \/ analyzeVideoGenerate(r)
    \/ analyzePDFCall(r)
    \/ analyzePDFUpload(r)
    \/ analyzePDFPoll(r)
    \/ analyzePDFGenerate(r)
    \/ createResultMarkdown(r)
    \/ mainCleanup(r)
    \/ processJobFindOutput(r)
    \/ processJobCreateZip(r)
    \/ processJobComplete(r)
    \/ processJobCatch(r)

Next == POST \/ processJob \/ \E r \in RunIds : step(r)

\* uploads and processJob invocations, interleaved at every await; the
\* understanding service answers every request as asked
Spec == Init /\ [][Next]_vars

\* one uploaded deck with PipeImages images and PipeVideos videos, its job
\* pending and processJob started for it; the service answers in every way
InitPipe ==
    /\ \E name \in FileNames :
         /\ jobs = [j \in JobIds |->
                      IF j = 1 THEN [NoJob EXCEPT !.status = "pending",
                                                  !.filename = name \o <<".pptx">>]
                      ELSE NoJob]
         /\ files = [j \in JobIds |->
                      IF j = 1 THEN [exists |-> TRUE,
                                     originalName |-> name \o <<".pptx">>,
                                     savedName |-> <<Digit(1), "_">> \o name \o <<".pptx">>,
                                     entries |-> Deck(PipeImages, PipeVideos)]
                      ELSE NoFile]
    /\ env = [responses |-> ServiceResponses, states |-> FileStates, faults |-> TRUE]
    /\ now = 0
    /\ output = << >>
    /\ temp = << >>
    /\ logs = << >>
    /\ pc = [r \in RunIds |-> IF r = 1 THEN "pj_claim" ELSE "idle"]
    /\ call = [r \in RunIds |-> IF r = 1 THEN [NoCall EXCEPT !.jobId = 1] ELSE NoCall]
    /\ proc = [r \in RunIds |-> NoProc]
    /\ history = [r \in RunIds |-> NoHistory]
    /\ lab = << >>

NextPipe == step(1)

\* one run of processJob on its own
PipeSpec == InitPipe /\ [][NextPipe]_vars

\* the worker keeps running: node's event loop runs every continuation that is ready
FairPipeSpec == PipeSpec /\ WF_vars(NextPipe)

\* ------------------------------------------------------------------ extraction on its own
\* the entries a container may hold: media with listed and unlisted
\* extensions, in ppt/media/ and in another directory whose path contains
\* "ppt/media/", and relationship parts of slides with media targets
ContainerEntries ==
    { [dir |-> d, name |-> n, ext |-> n[Len(n)], slide |-> 0, targets |-> {}] :
        d \in {MediaDir, <<"customXml/">> \o MediaDir},
        n \in {ImageName(1), <<"image", "2", ".PNG">>, VideoName(1),
               <<"media", "2", ".mkv">>, <<"image", "9", ".emf">>} }
    \cup
    { [dir |-> RelsDir, name |-> <<"slide", Digit(k), ".xml.rels">>, ext |-> ".rels",
       slide |-> k, targets |-> t] :
        k \in 1..MaxSlides, t \in {{ImageName(1)}, {ImageName(1), VideoName(1)}} }

\* any container is handed to extractMediaFromPPTX
InitExtract ==
    /\ InitSystem
    /\ lab \in [fn : {"extractMediaFromPPTX"},
                entries : SeqUpTo(ContainerEntries, MaxEntries),
                extracted : {FALSE}, media : {<< >>}]

ApplyExtract ==
    /\ lab.fn = "extractMediaFromPPTX"
    /\ ~lab.extracted
    /\ lab' = [lab EXCEPT !.extracted = TRUE, !.media = extractMediaFromPPTX(lab.entries)]
    /\ UNCHANGED <<jobs, files, env, now, output, temp, logs, pc, call, proc, history>>

\* extractMediaFromPPTX applied to any container
ExtractSpec == InitExtract /\ [][ApplyExtract]_vars

\* ------------------------------------------------------------------ extraction with unreadable entries
\* entry.getData() throws for the entries at the positions in unreadable.
\* buildMediaToSlideMap rethrows the error of a slide relationship part
mapThrows(entries, unreadable) ==
    \E k \in unreadable : k \in DOMAIN entries /\ isSlideRels(entries[k])

\* the entries the loop of lines 459-491 gets through: it ends at the first
\* selected media entry whose data cannot be read
RECURSIVE readablePrefix(_, _, _)
readablePrefix(entries, unreadable, k) ==
    IF k > Len(entries) THEN Len(entries)
    ELSE IF /\ k \in unreadable
            /\ inMediaPath(entries[k])
            /\ toLowerCase(entries[k].ext) \in imageExtensions \cup videoExtensions
         THEN k - 1
         ELSE readablePrefix(entries, unreadable, k + 1)

\* extractMediaFromPPTX with its catch clause: the error is handed to
\* Promise.reject, which nothing awaits, and media is returned as far as it
\* was filled
extractMediaCaught(entries, unreadable) ==
    IF mapThrows(entries, unreadable)
    THEN [media |-> [images |-> << >>, videos |-> << >>], rejected |-> TRUE]
    ELSE LET n == readablePrefix(entries, unreadable, 1)
             map == buildMediaToSlideMap(entries, << >>)
             got == SubSeq(entries, 1, n)
         IN  [media |-> [images |-> extractSelect(got, imageExtensions, map),
                         videos |-> extractSelect(got, videoExtensions, map)],
              rejected |-> n < Len(entries)]

\* any container, at most one of its entries unreadable
InitFaults ==
    /\ InitSystem
    /\ \E entries \in SeqUpTo(ContainerEntries, MaxEntries) :
         \E unreadable \in {{}} \cup {{k} : k \in DOMAIN entries} :
            lab = [fn |-> "extractMediaCaught", entries |-> entries,
                   unreadable |-> unreadable, extracted |-> FALSE,
                   media |-> [images |-> << >>, videos |-> << >>],
                   rejected |-> FALSE, exited |-> FALSE]

\* the call of line 171; the process ends on the unhandled rejection or only
\* warns, as the runtime is set up
ApplyExtractFaults ==
    /\ lab.fn = "extractMediaCaught"
    /\ ~lab.extracted
    /\ LET res == extractMediaCaught(lab.entries, lab.unreadable)
       IN  \E exited \in (IF res.rejected THEN BOOLEAN ELSE {FALSE}) :
              lab' = [lab EXCEPT !.extracted = TRUE, !.media = res.media,
                                 !.rejected = res.rejected, !.exited = exited]
    /\ UNCHANGED <<jobs, files, env, now, output, temp, logs, pc, call, proc, history>>

\* extractMediaFromPPTX applied to any container with an unreadable entry
FaultsSpec == InitFaults /\ [][ApplyExtractFaults]_vars

\* ------------------------------------------------------------------ the report
\* createResultMarkdown lines 557-567: the image entry of a page
pageImage(img) ==
    [filename |-> img.filename, extractedText |-> img.text,
     description |-> img.description, error |-> img.error]

\* createResultMarkdown lines 570-580: the video entry of a page
pageVideo(vid) ==
    [filename |-> vid.filename, transcription |-> vid.transcription,
     description |-> vid.description, error |-> vid.error]

\* imageAnalyses.filter(...).map(...) of lines 558-567
pageImages(imageAnalyses, pageNumber) ==
    LET found == SelectSeq(imageAnalyses, LAMBDA img : img.pageNumber = pageNumber)
    IN  [i \in DOMAIN found |-> pageImage(found[i])]

\* videoAnalyses.filter(...).map(...) of lines 570-581
pageVideos(videoAnalyses, pageNumber) ==
    LET found == SelectSeq(videoAnalyses, LAMBDA vid : vid.pageNumber = pageNumber)
    IN  [i \in DOMAIN found |-> pageVideo(found[i])]

\* createResultMarkdown lines 551-592: one entry per page of the whole-document
\* pass, in the order of that list, each with the analyses whose pageNumber is
\* strictly equal to the page's
pageContents(pages, imageAnalyses, videoAnalyses) ==
    [k \in DOMAIN pages |->
        [pageNumber |-> pages[k].pageNumber,
         pdfContent |-> pages[k],
         images |-> pageImages(imageAnalyses, pages[k].pageNumber),
         videos |-> pageVideos(videoAnalyses, pages[k].pageNumber)]]

\* createResultMarkdown lines 594-614: result.md holds the counts and the JSON
\* of pageContents, and no other section
resultMarkdown(pages, imageAnalyses, videoAnalyses) ==
    [pageCount |-> Len(pages),
     imageCount |-> Len(imageAnalyses),
     videoCount |-> Len(videoAnalyses),
     pageContents |-> pageContents(pages, imageAnalyses, videoAnalyses)]

\* what result.md holds of media that belong to no page: nothing, the
\* template has the document information and the pages only
unassignedMedia(report) == {}

\* what the whole-document pass may return: pages in any order
PageLists ==
    SeqUpTo({[pageNumber |-> n, extractedText |-> "text"] : n \in 1..MaxPages}, MaxPages)

\* image analyses as main pushes them: the k-th is of image k
ImageAnalysisLists ==
    UNION { { [k \in 1..m |->
                 imageEntry([name |-> ImageName(k), slideNumber |-> f[k].slide],
                            analyzeImage(TRUE, f[k].resp))] :
              f \in [1..m -> [slide : {Unknown} \cup (1..MaxPages),
                              resp : {"json", "json_empty"}]] } :
            m \in 0..MaxAnalyses }

\* video analyses as main pushes them: at most one, of video 1
VideoAnalysisLists ==
    {<< >>} \cup { <<videoEntry([name |-> VideoName(1), slideNumber |-> n],
                                analyzeVideo("json"))>> : n \in {Unknown} \cup (1..MaxPages) }

\* the report is written from any results
InitReport ==
    /\ InitSystem
    /\ lab \in [fn : {"createResultMarkdown"}, pages : PageLists,
                imageAnalyses : ImageAnalysisLists, videoAnalyses : VideoAnalysisLists,
                written : {FALSE}, report : {<< >>}]

ApplyReport ==
    /\ lab.fn = "createResultMarkdown"
    /\ ~lab.written
    /\ lab' = [lab EXCEPT !.written = TRUE,
                          !.report = resultMarkdown(lab.pages, lab.imageAnalyses,
                                                    lab.videoAnalyses)]
    /\ UNCHANGED <<jobs, files, env, now, output, temp, logs, pc, call, proc, history>>

\* createResultMarkdown applied to any analyses
ReportSpec == InitReport /\ [][ApplyReport]_vars

\* ------------------------------------------------------------------ parsing the answers
\* The text of an answer is modelled by its structure: whether it is wrapped
\* in a markdown code block, and what is inside: a JSON object with some
\* members (each a non-empty string), a JSON array of pages, a JSON string,
\* the JSON literal null, or prose that is no JSON.
Members == {"extractedText", "description", "audioTranscription", "visualDescription"}

Bodies ==
    [kind : {"object"}, members : SUBSET Members, items : {<< >>}]
    \cup [kind : {"array"}, members : {{}}, items : PageLists]
    \cup [kind : {"string", "null", "prose"}, members : {{}}, items : {<< >>}]

ResponseTexts == [fenced : BOOLEAN, body : Bodies]

\* responseText.match(/```(?:json)?\s*\n?([\s\S]*?)\n?```/): the inside of the
\* first code block, when there is one
codeBlockMatch(text) ==
    IF text.fenced THEN [matched |-> TRUE, inner |-> [text EXCEPT !.fenced = FALSE]]
    ELSE [matched |-> FALSE, inner |-> text]

\* JSON.parse: throws on a code fence and on prose
JSONparse(text) ==
    IF text.fenced \/ text.body.kind = "prose"
    THEN [throws |-> TRUE, value |-> text.body]
    ELSE [throws |-> FALSE, value |-> text.body]

\* the strings of a result: the empty string, the value of a member of the
\* parsed object, the whole text of the answer
EmptyString == [is |-> "empty"]
ValueOf(name) == [is |-> "value", of |-> name]
WholeText(text) == [is |-> "text", text |-> text]

\* parsed.name || "": reading a member of null throws, a member that is absent
\* (or read from an array or a string) is undefined
member(value, name) ==
    IF value.kind = "null" THEN [throws |-> TRUE, value |-> EmptyString]
    ELSE IF value.kind = "object" /\ name \in value.members
         THEN [throws |-> FALSE, value |-> ValueOf(name)]
    ELSE [throws |-> FALSE, value |-> EmptyString]

\* analyzeImage lines 141-163: extractedText and description of the result
parseImageResponse(responseText) ==
    LET block == codeBlockMatch(responseText)
        jsonText == IF block.matched THEN block.inner ELSE responseText
        parsed == JSONparse(jsonText)
    IN  IF parsed.throws \/ member(parsed.value, "extractedText").throws
        THEN [extractedText |-> WholeText(responseText),
              description |-> "Raw text extraction from Gemini", error |-> NoError]
        ELSE [extractedText |-> member(parsed.value, "extractedText").value,
              description |-> member(parsed.value, "description").value,
              error |-> NoError]

\* analyzeVideo lines 171-197, and main lines 276-284: transcription and
\* description of the entry (the text is parsed as it is, code block or not)
parseVideoResponse(responseText) ==
    LET parsed == JSONparse(responseText)
    IN  IF parsed.throws \/ member(parsed.value, "audioTranscription").throws
        THEN [transcription |-> WholeText(responseText),
              description |-> "Raw transcription from Gemini", error |-> NoError]
        ELSE [transcription |-> member(parsed.value, "audioTranscription").value,
              description |-> member(parsed.value, "visualDescription").value,
              error |-> NoError]

\* analyzePDF lines 266-304: an array found in the text is the list of pages;
\* without one, or when it does not parse, there is one page with the text
parsePDFResponse(text) ==
    LET block == codeBlockMatch(text)
        jsonText == IF block.matched THEN block.inner ELSE text
    IN  IF jsonText.body.kind = "array"
        THEN [text |-> text, pages |-> jsonText.body.items,
              pageCount |-> Len(jsonText.body.items)]
        ELSE [text |-> text,
              pages |-> << [pageNumber |-> 1, extractedText |-> WholeText(text),
                            error |-> "Failed to parse structured response"] >>,
              pageCount |-> 1]

\* an answer of the service is handed to one of the three analyzers
InitParse ==
    /\ InitSystem
    /\ lab \in [fn : {"analyzeImage", "analyzeVideo", "analyzePDF"},
                responseText : ResponseTexts, returned : {FALSE}, result : {<< >>}]

ParseImage ==
    /\ lab.fn = "analyzeImage" /\ ~lab.returned
    /\ lab' = [lab EXCEPT !.returned = TRUE,
                          !.result = parseImageResponse(lab.responseText)]
    /\ UNCHANGED <<jobs, files, env, now, output, temp, logs, pc, call, proc, history>>

ParseVideo ==
    /\ lab.fn = "analyzeVideo" /\ ~lab.returned
    /\ lab' = [lab EXCEPT !.returned = TRUE,
                          !.result = parseVideoResponse(lab.responseText)]
    /\ UNCHANGED <<jobs, files, env, now, output, temp, logs, pc, call, proc, history>>

ParsePDF ==
    /\ lab.fn = "analyzePDF" /\ ~lab.returned
    /\ lab' = [lab EXCEPT !.returned = TRUE,
                          !.result = parsePDFResponse(lab.responseText)]
    /\ UNCHANGED <<jobs, files, env, now, output, temp, logs, pc, call, proc, history>>

NextParse == ParseImage \/ ParseVideo \/ ParsePDF

\* the three analyzers applied to any answer
ParseSpec == InitParse /\ [][NextParse]_vars

\* ------------------------------------------------------------------ changeFontsToArial
\* The markup of a part is a sequence of tokens: the opening of a font tag,
\* a run of whitespace, a double-quoted typeface attribute (its value is the
\* list of font names between the quotes), other text, and ">".
Tag(v) == [t |-> "tag", v |-> <<v>>]
Ws(v) == [t |-> "ws", v |-> <<v>>]
Typeface(fonts) == [t |-> "typeface", v |-> fonts]
Text(v) == [t |-> "text", v |-> <<v>>]
Gt == [t |-> "gt", v |-> <<">">>]

Arial == Typeface(<<"Arial">>)

\* content.replace(/typeface="[^"]*"/g, 'typeface="Arial"')
replaceTypefacePrepends(content) ==
    [k \in DOMAIN content |->
        IF content[k].t = "typeface"
        THEN Typeface(<<"Arial">> \o content[k].v) ELSE content[k]]

replaceTypeface(content) ==
    [k \in DOMAIN content |-> IF content[k].t = "typeface" THEN Arial ELSE content[k]]

\* the end of the run of whitespace tokens that starts at position k
RECURSIVE endOfWhitespace(_, _)
endOfWhitespace(content, k) ==
    IF k <= Len(content) /\ content[k].t = "ws"
    THEN endOfWhitespace(content, k + 1) ELSE k

\* content.replace(/<a:latin\s+typeface="[^"]*"/g, '<a:latin typeface="Arial"'),
\* and the same for a:ea and a:cs: tag, whitespace and attribute are replaced
RECURSIVE replaceTag(_, _)
replaceTag(tag, content) ==
    IF content = << >> THEN << >>
    ELSE LET j == endOfWhitespace(content, 2)
         IN  IF /\ content[1] = Tag(tag)
                /\ j > 2
                /\ j <= Len(content)
                /\ content[j].t = "typeface"
             THEN <<Tag(tag), Ws(" "), Arial>>
                      \o replaceTag(tag, SubSeq(content, j + 1, Len(content)))
             ELSE <<content[1]>> \o replaceTag(tag, Tail(content))

\* the first position from k on that holds a token of kind t, or 0
RECURSIVE firstOf(_, _, _)
firstOf(content, t, k) ==
    IF k > Len(content) THEN 0
    ELSE IF content[k].t = t THEN k ELSE firstOf(content, t, k + 1)

\* content.replace(/<a:latin([^>]*?)typeface="[^"]*"([^>]*?)>/g,
\*                 '<a:latin$1typeface="Arial"$2>'): the first typeface
\* attribute between the tag and the next ">" is replaced, the rest is kept
RECURSIVE replaceTagAttrs(_, _)
replaceTagAttrs(tag, content) ==
    IF content = << >> THEN << >>
    ELSE LET g == firstOf(content, "gt", 2)
             j == firstOf(content, "typeface", 2)
         IN  IF content[1] = Tag(tag) /\ g > 0 /\ j > 0 /\ j < g
             THEN SubSeq(content, 1, j - 1) \o <<Arial>> \o SubSeq(content, j + 1, g)
                      \o replaceTagAttrs(tag, SubSeq(content, g + 1, Len(content)))
             ELSE <<content[1]>> \o replaceTagAttrs(tag, Tail(content))

\* the seven replacements, in the order of the code
modifiedContent(xmlContent) ==
    LET c1 == replaceTypeface(xmlContent)
        c2 == replaceTag("<a:latin", c1)
        c3 == replaceTag("<a:ea", c2)
        c4 == replaceTag("<a:cs", c3)
        c5 == replaceTagAttrs("<a:latin", c4)
        c6 == replaceTagAttrs("<a:ea", c5)
    IN  replaceTagAttrs("<a:cs", c6)

\* the test on the entry name without its endsWith(".xml") conjuncts
isFontPartByPrefix(entryName) ==
    \/ startsWith(entryName, <<"ppt/", "slides/", "slide">>)
    \/ startsWith(entryName, <<"ppt/", "theme/", "theme">>)
    \/ startsWith(entryName, <<"ppt/", "slideMasters/">>)
    \/ startsWith(entryName, <<"ppt/", "slideLayouts/">>)

\* the test on the entry name: a slide, theme, slide master or slide layout
isFontPart(entryName) ==
    \/ startsWith(entryName, <<"ppt/", "slides/", "slide">>) /\ endsWith(entryName, <<".xml">>)
    \/ startsWith(entryName, <<"ppt/", "theme/", "theme">>) /\ endsWith(entryName, <<".xml">>)
    \/ startsWith(entryName, <<"ppt/", "slideMasters/">>) /\ endsWith(entryName, <<".xml">>)
    \/ startsWith(entryName, <<"ppt/", "slideLayouts/">>) /\ endsWith(entryName, <<".xml">>)

\* the entries of the container written to outputPath
changeFontsToArial(entries) ==
    [k \in DOMAIN entries |->
        IF isFontPart(entries[k].entryName)
        THEN [entries[k] EXCEPT !.data = modifiedContent(entries[k].data)]
        ELSE entries[k]]

\* the names of the parts a presentation holds
PartNames ==
    { <<"ppt/", "slides/", "slide", "1", ".xml">>,
      <<"ppt/", "slides/", "_rels/", "slide", "1", ".xml", ".rels">>,
      <<"ppt/", "theme/", "theme", "1", ".xml">>,
      <<"ppt/", "slideMasters/", "slideMaster", "1", ".xml">>,
      <<"ppt/", "slideMasters/", "_rels/", "slideMaster", "1", ".xml", ".rels">>,
      <<"ppt/", "slideLayouts/", "slideLayout", "1", ".xml">>,
      <<"ppt/", "notesSlides/", "notesSlide", "1", ".xml">>,
      <<"ppt/", "media/", "image", "1", ".png">>,
      <<"ppt/", "presentation", ".xml">> }

Tokens ==
    { Tag("<a:latin"), Tag("<a:ea"), Tag("<a:cs"), Ws(" "), Ws("  "),
      Typeface(<<"Calibri">>), Text("typeface='Calibri'"), Text("sz=\"12\""), Gt }

\* parts every drawn container holds beside the drawn one: relationships and
\* notes of a second slide, both with a font in them
OtherParts ==
    << [entryName |-> <<"ppt/", "slides/", "_rels/", "slide", "2", ".xml", ".rels">>,
        data |-> <<Typeface(<<"Calibri">>)>>],
       [entryName |-> <<"ppt/", "notesSlides/", "notesSlide", "2", ".xml">>,
        data |-> <<Tag("<a:latin"), Ws("  "), Typeface(<<"Calibri">>), Gt>>] >>

NoContainer == << >>

\* a container is at filePath; nothing is at the two output paths
InitFonts ==
    /\ InitSystem
    /\ \E name \in PartNames, data \in SeqUpTo(Tokens, MaxTokens) :
          lab = [fn |-> "changeFontsToArial",
                 disk |-> [filePath |-> <<[entryName |-> name, data |-> data]>> \o OtherParts,
                           modifiedPptxPath |-> NoContainer,
                           again |-> NoContainer]]

\* changeFontsToArial(inputPath, outputPath): the upload is rewritten into the
\* scratch directory; the rewritten container is rewritten once more
changeFontsToArialCall ==
    /\ lab.fn = "changeFontsToArial"
    /\ \E paths \in {<<"filePath", "modifiedPptxPath">>, <<"modifiedPptxPath", "again">>} :
          /\ lab.disk[paths[1]] # NoContainer
          /\ lab.disk[paths[2]] = NoContainer
          /\ lab' = [lab EXCEPT !.disk[paths[2]] = changeFontsToArial(lab.disk[paths[1]])]
    /\ UNCHANGED <<jobs, files, env, now, output, temp, logs, pc, call, proc, history>>

\* changeFontsToArial applied to any container, and to its own result
FontsSpec == InitFonts /\ [][changeFontsToArialCall]_vars

\* ------------------------------------------------------------------ font rewriting with an unreadable part
\* a second slide with a font other than Arial
SecondSlide ==
    [entryName |-> <<"ppt/", "slides/", "slide", "2", ".xml">>,
     data |-> <<Tag("<a:latin"), Ws("  "), Typeface(<<"Calibri">>), Gt>>]

\* entry.getData() of line 396 throws for a matched part at a position in
\* unreadable; nothing in changeFontsToArial catches it
changeFontsThrows(entries, unreadable) ==
    \E k \in unreadable : k \in DOMAIN entries /\ isFontPart(entries[k].entryName)

\* any part and a second slide next to the other parts; at most one part is
\* unreadable; nothing is at modifiedPptxPath
InitFontFaults ==
    /\ InitSystem
    /\ \E name \in PartNames, data \in SeqUpTo(Tokens, MaxTokens), unreadable \in {{}, {1}, {2}, {3}} :
          lab = [fn |-> "mainFonts",
                 filePath |-> <<[entryName |-> name, data |-> data], SecondSlide>> \o OtherParts,
                 unreadable |-> unreadable,
                 modifiedPptxPath |-> NoContainer,
                 at |-> "fonts"]

\* main lines 177-190: the container is rewritten; when the rewriting throws,
\* the original is copied to modifiedPptxPath, and a failed copy leaves main
mainFontsCall ==
    /\ lab.fn = "mainFonts" /\ lab.at = "fonts"
    /\ \E copied \in BOOLEAN :
          IF ~changeFontsThrows(lab.filePath, lab.unreadable)
          THEN lab' = [lab EXCEPT !.modifiedPptxPath = changeFontsToArial(lab.filePath),
                                  !.at = "render"]
          ELSE IF copied
          THEN lab' = [lab EXCEPT !.modifiedPptxPath = lab.filePath, !.at = "render"]
          ELSE lab' = [lab EXCEPT !.at = "fatal"]
    /\ UNCHANGED <<jobs, files, env, now, output, temp, logs, pc, call, proc, history>>

\* the font phase of main on any container with an unreadable part
FontFaultsSpec == InitFontFaults /\ [][mainFontsCall]_vars

\* ------------------------------------------------------------------ download
\* the job records the store can hold: none, or a job in one of the four
\* statuses with or without a recorded zipPath
ZipPaths == { << >>, <<"zips/", "a", "_analysis.zip">> }

JobRecords ==
    {NoJob} \cup
    { [NoJob EXCEPT !.status = st, !.filename = <<"a", ".pptx">>, !.zipPath = z] :
        st \in {"pending", "processing", "completed", "failed"}, z \in ZipPaths }

NoResponse == [status |-> 0, body |-> << >>]

\* throw error(status, message): a response without a body
error(status) == [status |-> status, body |-> << >>]

\* the condition of the 404 with the status left out
notAvailableWithoutStatus(job) == job.zipPath = << >>

\* !job || job.status !== "completed" || !job.zipPath
notAvailable(job) == job.status # "completed" \/ job.zipPath = << >>

\* GET /api/download/[jobId]: getOne rejects for an unknown id, the 404 is
\* thrown inside the try block, fs.access rejects for a missing file; the
\* catch clause turns each of them into error(500, "Download failed")
GET(store, zipOnDisk, jobId) ==
    LET job == store[jobId]
        thrown == IF job = NoJob THEN TRUE
                  ELSE IF notAvailable(job) THEN TRUE
                  ELSE ~zipOnDisk
    IN  IF thrown THEN error(500)
        ELSE [status |-> 200, body |-> job.zipPath]

\* any store, the zip file on disk or not; no request was answered
InitDownload ==
    /\ InitSystem
    /\ lab \in [fn : {"GET"}, store : [JobIds -> JobRecords], zipOnDisk : BOOLEAN,
                jobId : {0}, response : {NoResponse}]

\* one request for one job id is answered
GETCall ==
    /\ lab.fn = "GET"
    /\ lab.response = NoResponse
    /\ \E jobId \in JobIds :
          lab' = [lab EXCEPT !.jobId = jobId,
                             !.response = GET(lab.store, lab.zipOnDisk, jobId)]
    /\ UNCHANGED <<jobs, files, env, now, output, temp, logs, pc, call, proc, history>>

\* the download handler answering one request against any store
DownloadSpec == InitDownload /\ [][GETCall]_vars

\* ------------------------------------------------------------------ the copy for the renderer
\* the list of removeVideosFromPptx
removedVideoExtensions ==
    {".mp4", ".avi", ".mov", ".wmv", ".mpg", ".mpeg", ".m4v", ".webm"}

\* entryName.startsWith('ppt/media/') &&
\* videoExtensions.some(ext => entryName.toLowerCase().endsWith(ext))
isRemovedVideo(e) ==
    /\ startsWith(e.dir \o e.name, MediaDir)
    /\ toLowerCase(e.ext) \in removedVideoExtensions

\* a relationship part without the Relationship elements whose Target ends in
\* one of the listed extensions
cleanedRels(e) ==
    [e EXCEPT !.targets =
        {t \in e.targets : toLowerCase(t[Len(t)]) \notin removedVideoExtensions}]

\* removeVideosFromPptx: the entries of the new ZIP, in the order of the old
RECURSIVE removeVideosFromPptx(_)
removeVideosFromPptx(zipEntries) ==
    IF zipEntries = << >> THEN << >>
    ELSE LET e == Head(zipEntries)
         IN  (IF isRemovedVideo(e) THEN << >>
              ELSE IF includes(e.name, <<".xml.rels">>) THEN <<cleanedRels(e)>>
              ELSE <<e>>)
             \o removeVideosFromPptx(Tail(zipEntries))

NoCopy == [exists |-> FALSE, entries |-> << >>]

\* any container is at pptxPath; convertToPdf has not started
InitCopy ==
    /\ InitSystem
    /\ lab \in [fn : {"convertToPdf"},
                pptx : SeqUpTo(ContainerEntries, MaxEntries),
                videoFree : {NoCopy}, converted : {NoCopy}, at : {"remove"}]

\* convertToPdf line 978: the video-free copy is written next to the container
removeVideosCall ==
    /\ lab.fn = "convertToPdf" /\ lab.at = "remove"
    /\ lab' = [lab EXCEPT !.videoFree = [exists |-> TRUE,
                                         entries |-> removeVideosFromPptx(lab.pptx)],
                          !.at = "soffice"]
    /\ UNCHANGED <<jobs, files, env, now, output, temp, logs, pc, call, proc, history>>

\* lines 981-1025: soffice converts the file at videoFreePptxPath
sofficeCall ==
    /\ lab.fn = "convertToPdf" /\ lab.at = "soffice"
    /\ lab' = [lab EXCEPT !.converted = lab.videoFree, !.at = "finally"]
    /\ UNCHANGED <<jobs, files, env, now, output, temp, logs, pc, call, proc, history>>

\* lines 1059-1068: the copy is unlinked, or stays when the unlink fails
unlinkCall ==
    /\ lab.fn = "convertToPdf" /\ lab.at = "finally"
    /\ \E ok \in BOOLEAN :
          lab' = [lab EXCEPT !.videoFree = IF ok THEN NoCopy ELSE @, !.at = "returned"]
    /\ UNCHANGED <<jobs, files, env, now, output, temp, logs, pc, call, proc, history>>

\* convertToPdf on any container
CopySpec == InitCopy /\ [][removeVideosCall \/ sofficeCall \/ unlinkCall]_vars

\* ------------------------------------------------------------------ properties
Terminal == {"completed", "failed"}

\* positions of a run between its status write "processing" and its last status write
Holding == {"pj_getfile", "main_begin", "main_extract", "main_fonts", "main_render",
            "main_render_legacy", "main_images", "img_wait", "main_videos", "vid_poll",
            "vid_gen", "main_pdf", "pdf_upload", "pdf_poll", "pdf_gen", "main_report",
            "main_cleanup", "pj_find", "pj_zip", "pj_complete"}

\* positions at which the analysis process of a run is alive
InProcess == {"main_extract", "main_fonts", "main_render", "main_render_legacy",
              "main_images", "img_wait", "main_videos", "vid_poll", "vid_gen",
              "main_pdf", "pdf_upload", "pdf_poll", "pdf_gen", "main_report",
              "main_cleanup"}

\* positions inside the two asset loops
InAssetLoops == {"main_images", "img_wait", "main_videos", "vid_poll", "vid_gen"}

\* positions from the whole-document pass to the report
InDocumentPass == {"main_pdf", "pdf_upload", "pdf_poll", "pdf_gen", "main_report"}

jobOf(r) == jobs[call[r].jobId]

\* C1: at no time do two processJob invocations hold the same job in
\* processing, that is, are both past the status write and running the pipeline
C1_OneRunHoldsJob ==
    \A r1 \in RunIds, r2 \in RunIds :
        (r1 # r2 /\ pc[r1] \in Holding /\ pc[r2] \in Holding)
            => call[r1].jobId # call[r2].jobId

\* the status changes the lifecycle allows
AllowedTransitions ==
    { <<"none", "pending">>, <<"pending", "processing">>,
      <<"processing", "completed">>, <<"processing", "failed">> }

\* C2: a job's status only changes along pending -> processing -> completed
\* or pending -> processing -> failed
C2_ForwardOnly ==
    [][\A j \in JobIds :
          jobs'[j].status # jobs[j].status
              => <<jobs[j].status, jobs'[j].status>> \in AllowedTransitions]_vars

\* C3: once a job is completed or failed, no later step changes its status,
\* its artifact path or its error detail
C3_TerminalIsFinal ==
    [][\A j \in JobIds :
          jobs[j].status \in Terminal
              => /\ jobs'[j].status = jobs[j].status
                 /\ jobs'[j].zipPath = jobs[j].zipPath
                 /\ jobs'[j].error = jobs[j].error]_vars

\* C4: a failed job carries a non-empty error detail, and never the generic
\* text "Unknown error"
C4_SpecificErrorDetail ==
    \A j \in JobIds :
        jobs[j].status = "failed"
            => jobs[j].error # << >> /\ jobs[j].error # <<"Unknown error">>

allAssets(r) == Names(proc[r].media.images) \cup Names(proc[r].media.videos)

reportOf(r) ==
    IF history[r].timestamp < 0 THEN 0
    ELSE LET d == outputDirName(history[r].timestamp, savedNameOf(r))
         IN  IF d \in DOMAIN output THEN output[d].report ELSE 0

\* C6: when the whole-document analysis has failed, the run writes no report
\* and the job is never completed
C6_DocumentPassFailureIsFatal ==
    \A r \in RunIds :
        history[r].pdfFailed
            => /\ reportOf(r) # r
               /\ (pc[r] = "done" => jobOf(r).status # "completed")

\* C7: when rendering has failed and processJob has returned, the job is failed
\* with an error detail that mentions the rendering failure, there is no
\* report, and the temp directory of the run is still on disk
C7_RenderFailure ==
    \A r \in RunIds :
        (history[r].renderFailed /\ pc[r] = "done")
            => /\ jobOf(r).status = "failed"
               /\ \/ includes(jobOf(r).error, <<"PDF conversion failed">>)
                  \/ includes(jobOf(r).error,
                              <<"LibreOffice is not installed. Cannot convert to PDF.">>)
               /\ reportOf(r) = 0
               /\ tempDir(history[r].timestamp, call[r].jobId) \in DOMAIN temp

RECURSIVE ordered(_)
\* the calls in the log are images, then videos, then the document
ordered(log) ==
    IF Len(log) < 2 THEN TRUE
    ELSE /\ log[1] = "video" => log[2] # "image"
         /\ log[1] # "pdf"
         /\ ordered(Tail(log))

C9_ProcessingEnds ==
    \A j \in JobIds :
        (jobs[j].status = "processing") ~> (jobs[j].status \in Terminal)

\* C10: two runs whose analysis processes are alive at the same time have
\* different temp directories and different log files
C10_ScratchPerRun ==
    \A r1 \in RunIds, r2 \in RunIds :
        (r1 # r2 /\ pc[r1] \in InProcess /\ pc[r2] \in InProcess)
            => /\ tempDirOf(r1) # tempDirOf(r2)
               /\ logFileOf(r1) # logFileOf(r2)

inSeq(x, seq) == \E k \in DOMAIN seq : seq[k] = x

\* the analysis is attached to a page of the report with the given number
attached(report, number, img, vid) ==
    \E k \in DOMAIN report.pageContents :
        /\ report.pageContents[k].pageNumber = number
        /\ \/ inSeq(img, report.pageContents[k].images)
           \/ inSeq(vid, report.pageContents[k].videos)

\* C11: every image and video analysis of the run is in the report, attached
\* to the page of its slide number or, when that is unknown, in the section of
\* unassigned media
C11_NoAnalysisDropped ==
    lab.written =>
        /\ \A k \in DOMAIN lab.imageAnalyses :
              LET a == lab.imageAnalyses[k]
              IN  IF a.pageNumber = Unknown
                  THEN pageImage(a) \in unassignedMedia(lab.report)
                  ELSE attached(lab.report, a.pageNumber, pageImage(a), << >>)
        /\ \A k \in DOMAIN lab.videoAnalyses :
              LET a == lab.videoAnalyses[k]
              IN  IF a.pageNumber = Unknown
                  THEN pageVideo(a) \in unassignedMedia(lab.report)
                  ELSE attached(lab.report, a.pageNumber, << >>, pageVideo(a))

\* C12: the report has one entry per page the whole-document pass returned,
\* and its entries are in ascending order of page number
C12_PagesOnceAscending ==
    lab.written =>
        LET entries == lab.report.pageContents
        IN  /\ Len(entries) = Len(lab.pages)
            /\ \A k \in DOMAIN lab.pages :
                  \E i \in DOMAIN entries : entries[i].pdfContent = lab.pages[k]
            /\ \A i \in DOMAIN entries, j \in DOMAIN entries :
                  i < j => entries[i].pageNumber <= entries[j].pageNumber

\* C13: no image whose extracted text is empty is listed in the report
C13_EmptyTextLeftOut ==
    lab.written =>
        \A k \in DOMAIN lab.report.pageContents :
            \A i \in DOMAIN lab.report.pageContents[k].images :
                lab.report.pageContents[k].images[i].extractedText # ""

\* C14: the analysis of an image whose answer could not be parsed (the
\* analyzer marks it "Raw text extraction from Gemini") has its error field
\* set; the run goes on to completed as for any other image
C14_UnparsableImageHasError ==
    \A r \in RunIds :
        \A k \in DOMAIN proc[r].imageAnalyses :
            proc[r].imageAnalyses[k].description = "Raw text extraction from Gemini"
                => proc[r].imageAnalyses[k].error # NoError

\* the answer has the shape the analyzer asks for: a JSON object for an image
\* or a video, a JSON array for the document, in a code block or not
expectedShape(fn, text) ==
    text.body.kind = (IF fn = "analyzePDF" THEN "array" ELSE "object")

\* the raw text of the answer is the unstructured text of the result
rawTextKept(fn, text, result) ==
    CASE fn = "analyzeImage" -> result.extractedText = WholeText(text)
      [] fn = "analyzeVideo" -> result.transcription = WholeText(text)
      [] OTHER -> /\ Len(result.pages) = 1
                  /\ result.pages[1].extractedText = WholeText(text)

\* C15: an answer that does not have the expected shape is kept as the raw
\* text of the analysis (extractedText, transcription, or one page holding it)
C15_RawTextKept ==
    (lab.returned /\ ~expectedShape(lab.fn, lab.responseText))
        => rawTextKept(lab.fn, lab.responseText, lab.result)

\* the slides whose relationship parts target the media name
referencingSlides(entries, name) ==
    { entries[k].slide : k \in {i \in DOMAIN entries :
                                   isSlideRels(entries[i]) /\ name \in entries[i].targets} }

allMedia(media) == media.images \o media.videos

\* C16: a media file that slides reference is owned by the smallest of the
\* referencing slide numbers, whatever the order of the entries
C16_SmallestSlideWins ==
    lab.extracted =>
        \A k \in DOMAIN allMedia(lab.media) :
            LET asset == allMedia(lab.media)[k]
                slides == referencingSlides(lab.entries, asset.name)
            IN  slides # {} =>
                    /\ asset.slideNumber \in slides
                    /\ \A n \in slides : asset.slideNumber <= n

\* the entries of the media directory whose extension is on a list
listedMedia(entries) ==
    { k \in DOMAIN entries :
        /\ entries[k].dir = MediaDir
        /\ toLowerCase(entries[k].ext) \in imageExtensions \cup videoExtensions }

\* C17: the extracted assets are, one for one, the entries of the media
\* directory with a listed extension; an asset no slide references is kept
\* with slide number Unknown
C17_ExtractionComplete ==
    lab.extracted =>
        LET assets == allMedia(lab.media)
        IN  /\ Len(assets) = Cardinality(listedMedia(lab.entries))
            /\ \A k \in listedMedia(lab.entries) :
                  \E i \in DOMAIN assets : assets[i].name = lab.entries[k].name
            /\ \A i \in DOMAIN assets :
                  /\ toLowerCase(assets[i].name[Len(assets[i].name)])
                        \in imageExtensions \cup videoExtensions
                  /\ referencingSlides(lab.entries, assets[i].name) = {}
                        => assets[i].slideNumber = Unknown

\* C18: rewriting the rewritten container gives, part for part, the contents
\* that rewriting the container once gave
C18_RewriteIdempotent ==
    (lab.fn = "changeFontsToArial" /\ lab.disk.again # NoContainer) =>
        lab.disk.again = lab.disk.modifiedPptxPath

\* a font part with a font other than Arial was rewritten, and rewritten again
C18_Witness ==
    /\ lab.fn = "changeFontsToArial"
    /\ lab.disk.again # NoContainer
    /\ isFontPart(lab.disk.filePath[1].entryName)
    /\ lab.disk.modifiedPptxPath[1].data # lab.disk.filePath[1].data

\* the slides, themes, slide masters and slide layouts among the part names
FontParts ==
    { <<"ppt/", "slides/", "slide", "1", ".xml">>,
      <<"ppt/", "theme/", "theme", "1", ".xml">>,
      <<"ppt/", "slideMasters/", "slideMaster", "1", ".xml">>,
      <<"ppt/", "slideLayouts/", "slideLayout", "1", ".xml">> }

\* C19: a rewrite leaves the container it reads as it was, and every part of
\* the container it writes that is no slide, theme, slide master or slide
\* layout is the part it read
C19_OnlyFontPartsChange ==
    [][lab.fn = "changeFontsToArial" =>
         \A paths \in {<<"filePath", "modifiedPptxPath">>, <<"modifiedPptxPath", "again">>} :
            (lab.disk[paths[2]] = NoContainer /\ lab'.disk[paths[2]] # NoContainer) =>
                /\ lab'.disk[paths[1]] = lab.disk[paths[1]]
                /\ lab'.disk.filePath = lab.disk.filePath
                /\ Len(lab'.disk[paths[2]]) = Len(lab.disk[paths[1]])
                /\ \A k \in DOMAIN lab.disk[paths[1]] :
                      /\ lab'.disk[paths[2]][k].entryName = lab.disk[paths[1]][k].entryName
                      /\ lab.disk[paths[1]][k].entryName \notin FontParts
                            => lab'.disk[paths[2]][k] = lab.disk[paths[1]][k]]_vars

\* a container whose first part is no font part and holds a typeface
\* attribute was rewritten
C19_Witness ==
    /\ lab.fn = "changeFontsToArial"
    /\ lab.disk.modifiedPptxPath # NoContainer
    /\ lab.disk.filePath[1].entryName \notin FontParts
    /\ \E k \in DOMAIN lab.disk.filePath[1].data :
          lab.disk.filePath[1].data[k].t = "typeface"

\* C20: a download answers with the bytes of the zip only for a job that is
\* completed and has its zipPath recorded; for a pending, processing or
\* failed job the answer is an error without bytes
C20_BytesOnlyWhenCompleted ==
    (lab.fn = "GET" /\ lab.response # NoResponse) =>
        LET job == lab.store[lab.jobId]
        IN  /\ lab.response.body # << >> =>
                  /\ job.status = "completed"
                  /\ job.zipPath # << >>
                  /\ lab.response.body = job.zipPath
            /\ job.status \in {"pending", "processing", "failed"} =>
                  /\ lab.response.status >= 400
                  /\ lab.response.body = << >>

\* a failed job with a recorded zipPath and the zip on disk was asked for
C20_Witness ==
    /\ lab.fn = "GET"
    /\ lab.response # NoResponse
    /\ lab.store[lab.jobId].status = "failed"
    /\ lab.store[lab.jobId].zipPath # << >>
    /\ lab.zipOnDisk

\* C21: a completed job has its zipPath and completedAt recorded; the update
\* that makes a job completed writes them itself, and the zip it names has
\* been written by then
C21_CompletedHasBundle ==
    [][\A j \in JobIds :
          jobs'[j].status = "completed" =>
             /\ jobs'[j].zipPath # << >>
             /\ jobs'[j].completedAt
             /\ jobs[j].status # "completed" =>
                   \E r \in RunIds :
                      /\ pc[r] = "pj_complete"
                      /\ call[r].jobId = j
                      /\ jobs'[j].zipPath = call[r].outputPath
                      /\ call[r].outputPath \in DOMAIN output
                      /\ output[call[r].outputPath].zip # 0]_vars

\* a job is completed
C21_Witness ==
    \E j \in JobIds : jobs[j].status = "completed" /\ jobs[j].zipPath # << >>

\* C22: within a run every external call is made at most once: a run whose
\* soffice call has failed makes no further soffice call, and the analyzers
\* are called at most once per image, per video and for the PDF
C22_NoSecondAttempt ==
    [][\A r \in RunIds :
          /\ pc[r] = "main_render_legacy" => pc'[r] = pc[r]
          /\ Len(proc'[r].callLog)
                <= Len(proc'[r].media.images) + Len(proc'[r].media.videos) + 1]_vars

\* C23: the container the renderer is given holds none of the entries that
\* extractMediaFromPPTX returns as videos, the container at pptxPath stays as
\* it is, and nothing but the renderer reads the copy
C23_VideosStripped ==
    [][lab.fn = "convertToPdf" =>
         /\ lab'.pptx = lab.pptx
         /\ lab'.converted.exists =>
               /\ lab'.converted.entries = removeVideosFromPptx(lab.pptx)
               /\ \A k \in DOMAIN extractMediaFromPPTX(lab.pptx).videos :
                     \A i \in DOMAIN lab'.converted.entries :
                        ~(/\ inMediaPath(lab'.converted.entries[i])
                          /\ lab'.converted.entries[i].name =
                                extractMediaFromPPTX(lab.pptx).videos[k].name)]_vars

\* C24: when no entry is unreadable but a slide relationship part, the
\* extraction does not end the run and returns an asset for every entry of
\* the media directory with a listed extension; an asset that no readable
\* relationship part references has slide number Unknown
C24_UnreadableRelsDegrade ==
    (/\ lab.fn = "extractMediaCaught"
     /\ lab.extracted
     /\ \A k \in lab.unreadable : isSlideRels(lab.entries[k])) =>
        /\ ~lab.exited
        /\ \A k \in DOMAIN lab.entries :
              (/\ lab.entries[k].dir = MediaDir
               /\ toLowerCase(lab.entries[k].ext) \in imageExtensions \cup videoExtensions)
              => \E i \in DOMAIN (lab.media.images \o lab.media.videos) :
                    (lab.media.images \o lab.media.videos)[i].name = lab.entries[k].name
        /\ \A i \in DOMAIN (lab.media.images \o lab.media.videos) :
              LET asset == (lab.media.images \o lab.media.videos)[i]
              IN  (\A k \in DOMAIN lab.entries :
                      (isSlideRels(lab.entries[k]) /\ asset.name \in lab.entries[k].targets)
                         => k \in lab.unreadable)
                  => asset.slideNumber = Unknown

\* C25: when the font phase has handed a container to the renderer, a
\* slide, theme, master or layout that could not be read is in it as it was
\* and every other one is in it rewritten
C25_OnePartLeftOthersRewritten ==
    (lab.fn = "mainFonts" /\ lab.at = "render") =>
        \A k \in DOMAIN lab.filePath :
            isFontPart(lab.filePath[k].entryName) =>
                lab.modifiedPptxPath[k].data =
                    IF k \in lab.unreadable THEN lab.filePath[k].data
                    ELSE modifiedContent(lab.filePath[k].data)

\* the number of calls of one kind a run has made
calls(r, kind) == Cardinality({k \in DOMAIN proc[r].callLog : proc[r].callLog[k] = kind})

\* the media context of the run's analyzePDF call: the analyses do not change
\* once the asset loops have ended
mediaContextOf(r) == mediaContext(proc[r].imageAnalyses, proc[r].videoAnalyses)

\* positions after the call of analyzePDF
AfterPDFCall == {"pdf_upload", "pdf_poll", "pdf_gen", "main_report"}

\* C26: a run that has called analyzePDF has called it once, and the media
\* context of the call has one entry for every image and one for every video
\* that was handed to an analyzer, the images in the order of extraction
C26_ContextHasEverySubmitted ==
    \A r \in RunIds :
        pc[r] \in AfterPDFCall =>
            /\ calls(r, "pdf") = 1
            /\ Len(mediaContextOf(r).images) = calls(r, "image")
            /\ Len(mediaContextOf(r).videos) = calls(r, "video")
            /\ [k \in DOMAIN mediaContextOf(r).images |-> mediaContextOf(r).images[k].filename]
                  = [k \in DOMAIN proc[r].media.images |-> proc[r].media.images[k].name]

\* C27: when the asset loops have ended there is one analysis for every image
\* and one for every video that was handed to an analyzer; a failure is in
\* the error field of the entry
C27_OneAnalysisPerSubmitted ==
    \A r \in RunIds :
        pc[r] \in InDocumentPass =>
            /\ Len(proc[r].imageAnalyses) = calls(r, "image")
            /\ Len(proc[r].videoAnalyses) = calls(r, "video")
            /\ \A k \in DOMAIN proc[r].media.images :
                  Cardinality({i \in DOMAIN proc[r].imageAnalyses :
                      proc[r].imageAnalyses[i].filename = proc[r].media.images[k].name}) = 1

\* C28: the directory a run archives and records for its job is the output
\* directory that its own analysis process created, and the report in it was
\* written by that process
C28_BundleFromOwnOutput ==
    \A r \in RunIds :
        pc[r] \in {"pj_zip", "pj_complete"} =>
            /\ call[r].outputPath = outputDirName(history[r].timestamp, savedNameOf(r))
            /\ call[r].outputPath \in DOMAIN output
            /\ output[call[r].outputPath].report = r

\* C29: for every job record that an upload has created, processJob has been
\* started
C29_EveryJobIsStarted ==
    \A j \in JobIds :
        jobs[j].status # "none" =>
            \E r \in RunIds : call[r].jobId = j /\ pc[r] # "idle"

\* C30: a request for a job that exists and is not completed, or has no
\* zipPath, is answered with status 404; status 500 is the answer only when
\* the job does not exist or the zip is not on disk
C30_NotAvailableIs404 ==
    (lab.fn = "GET" /\ lab.response # NoResponse) =>
        LET job == lab.store[lab.jobId]
        IN  /\ (job # NoJob /\ (job.status # "completed" \/ job.zipPath = << >>))
                  => lab.response.status = 404
            /\ lab.response.status = 500 => (job = NoJob \/ ~lab.zipOnDisk)

====
